---------------------------- MODULE Spec2Model ----------------------------
(***************************************************************************)
(* Model of the bors command parser (src/bors/command/parser.rs) and of    *)
(* the Team API permission cache (src/permissions.rs).                     *)
(*                                                                         *)
(* Spec       : the permission cache, one loader (TeamApiPermissionResolver*)
(*              ::load) and two concurrent has_permission callers.         *)
(* ParserSpec : CommandParser::parse_commands applied to bounded texts.    *)
(***************************************************************************)
EXTENDS Integers, Sequences, FiniteSets, TLC

(***************************************************************************)
(* Part I.  src/permissions.rs                                             *)
(***************************************************************************)

\* The wall clock is observed at 0 seconds and again at
\* CACHE_DURATION..CACHE_DURATION + MaxOver seconds.
MaxOver == 1
\* How many times the system clock is set backwards (ClockSpec only).
MaxBack == 1

\* const CACHE_DURATION: Duration = Duration::from_secs(60)
CACHE_DURATION == 60

\* The instants at which the clock is observed: ages below, equal to and
\* above CACHE_DURATION all occur between them.
Times == {0} \cup {CACHE_DURATION + o : o \in 0..MaxOver}

Loader == 0
\* The concurrent callers of has_permission.
Tasks == {1, 2}
Procs == {Loader} \cup Tasks

Users == {"alice", "bob"}
\* The usernames has_permission is asked about.
QueryUsers == {"alice"}
\* enum PermissionType
PermissionType == {"Review", "Try"}
\* Contents a well-formed bors.<repo>.<permission>.json file may have.
UserSets == {{"alice"}, {"bob"}}
\* What one load_users_from_team_api call can return: Err (file unreadable or
\* malformed, ok = FALSE) or Ok(users.github_users).
ReadErr == [ok |-> FALSE, github_users |-> {}]
ReadResults == {ReadErr} \cup {[ok |-> TRUE, github_users |-> s] : s \in UserSets}

NoError == "none"
\* anyhow!("Cannot load review users: ...") / anyhow!("Cannot load try users: ...")
LoadError(permission) ==
    IF permission = "Review" THEN "Cannot load review users"
    ELSE "Cannot load try users"

\* The Mutex<CachedUserPermissions> does not exist before load() returns Ok.
NoCache == [review_users |-> {}, try_users |-> {}, created_at |-> -1]

\* The history before load() has returned.
NoLatest ==
    [snapshot |-> NoCache, by_refresh |-> FALSE, replaced |-> NoCache,
     fetched_at |-> -1, older |-> {}, regressed |-> FALSE]

VARIABLES
    now,        \* SystemTime::now(), in seconds
    backs,      \* how many times the clock has been set backwards
    cache,      \* contents of self.permissions (CachedUserPermissions)
    mutex,      \* holder of the tokio Mutex, 0 when free
    latest,     \* history: the snapshot most recently handed over for storing,
                \* whether a refresh built it, the snapshot it replaced, when
                \* its lists were read, the tasks holding lists read earlier
                \* that they have yet to store, and whether it replaced lists
                \* read later than its own
    proc        \* per process: program counter, arguments, locals

\* Parser state (Part II); constant under Spec.
VARIABLES
    text,       \* the comment text given to parse_commands
    next_line,  \* index of the next line of text.lines()
    outcomes    \* the Vec collected so far

cacheVars == <<now, backs, cache, mutex, latest, proc>>
parserVars == <<text, next_line, outcomes>>
vars == <<now, backs, cache, mutex, latest, proc, text, next_line, outcomes>>

\* Locals of a process that is not inside a call.  The fields after `result`
\* are history only: no action reads them.
IdleProc ==
    [pc |-> "idle", username |-> "alice", permission |-> "Review",
     review_users |-> {}, try_users |-> {}, created_at |-> -1,
     error |-> NoError, result |-> FALSE,
     calls |-> 0,           \* load_users_from_team_api calls made in this call
     bad_read |-> "none",   \* which list the failed read was for
     age |-> 0,             \* now - created_at seen by the staleness check
     at_start |-> FALSE,    \* answer of the snapshot current when the call began
     refreshed |-> FALSE,   \* that snapshot had been stored by a refresh
     at_check |-> FALSE,    \* answer of the snapshot seen by the staleness check
     since_start |-> FALSE, \* a snapshot was stored between call and final read
     since_check |-> FALSE, \* a snapshot was stored between check and final read
     locks |-> 0,           \* lock() calls granted in this call
     fetched_at |-> -1,     \* when this call's load_permissions began reading
     fetched_before |-> {}] \* tasks that began reading after this call had
                            \* read both lists and before it stored them

\* UserPermissions::has_permission
UserPermissions_has_permission(permissions, username, permission) ==
    IF permission = "Review" THEN username \in permissions.review_users
    ELSE username \in permissions.try_users

\* Mutant of is_stale: `>=` instead of `>`.
is_stale_at_ttl(snapshot, time) ==
    IF time >= snapshot.created_at
    THEN (time - snapshot.created_at) >= CACHE_DURATION
    ELSE TRUE

\* CachedUserPermissions::is_stale: elapsed() is Err when created_at is later
\* than the current system time, and then the snapshot counts as stale.
is_stale(snapshot, time) ==
    IF time >= snapshot.created_at
    THEN (time - snapshot.created_at) > CACHE_DURATION
    ELSE TRUE

\* Mutant of CachedUserPermissions_new: created_at is the epoch
\* (SystemTime::UNIX_EPOCH) instead of now().
CachedUserPermissions_new_epoch(perms, time) ==
    [review_users |-> perms.review_users,
     try_users |-> perms.try_users,
     created_at |-> 0]

\* CachedUserPermissions::new(perms), evaluated at time `time`.
CachedUserPermissions_new(perms, time) ==
    [review_users |-> perms.review_users,
     try_users |-> perms.try_users,
     created_at |-> time]

\* The CachedUserPermissions process p built with new() before taking the lock.
NewSnapshot(p) == CachedUserPermissions_new(proc[p], proc[p].created_at)

\* Mutant of Replace: only the permissions are stored, created_at is kept.
ReplacePermissionsOnly(old, value) == [value EXCEPT !.created_at = old.created_at]

\* Mutant of Replace: the new value is dropped (stored into a copy).
ReplaceNothing(old, value) == old

\* `*guard = value`: the whole struct is replaced.
Replace(old, value) == value

-----------------------------------------------------------------------------
(* Environment *)

\* Time passes until instant c.  Instants are counted from the construction
\* of the resolver.
Tick(c) ==
    /\ proc[Loader].pc = "ready"
    /\ c > now
    /\ now' = c
    /\ UNCHANGED <<backs, cache, mutex, latest, proc, parserVars>>

\* The system clock is set back to instant c (SystemTime is not monotonic),
\* between calls.
SetBack(c) ==
    /\ proc[Loader].pc = "ready"
    /\ \A t \in Tasks : proc[t].pc = "idle"
    /\ backs < MaxBack
    /\ c < now
    /\ now' = c
    /\ backs' = backs + 1
    /\ UNCHANGED <<cache, mutex, latest, proc, parserVars>>

-----------------------------------------------------------------------------
(* load_permissions, called by load (the Loader) and by reload_permissions *)

\* Mutant of AfterLoadError: a failed refresh makes has_permission return
\* false at once.
AfterLoadErrorDeny(p) == IF p = Loader THEN "failed" ELSE "done"

\* Where a process continues when load_permissions returned Err: load()
\* propagates it with `?`; reload_permissions logs it and has_permission goes
\* on to its final lock().
AfterLoadError(p) == IF p = Loader THEN "failed" ELSE "read_wait"

\* Mutant of LoadUsersResult: a failed read counts as an empty user list
\* (unwrap_or_default instead of `?`).
LoadUsersResultDefault(p, permission, r) ==
    [proc[p] EXCEPT
        !.pc = IF permission = "Review" THEN "load_try" ELSE "new",
        !.review_users = IF permission = "Review" THEN r.github_users ELSE @,
        !.try_users = IF permission = "Try" THEN r.github_users ELSE @,
        !.bad_read = IF r.ok THEN @ ELSE permission,
        !.calls = @ + 1]

\* What load_permissions does with the outcome `r` of one
\* load_users_from_team_api call: `?` returns the mapped error, otherwise the
\* set is kept.
LoadUsersResult(p, permission, r) ==
    IF r.ok
    THEN [proc[p] EXCEPT
            !.pc = IF permission = "Review" THEN "load_try" ELSE "new",
            !.review_users = IF permission = "Review" THEN r.github_users ELSE @,
            !.try_users = IF permission = "Try" THEN r.github_users ELSE @,
            !.calls = @ + 1]
    ELSE [proc[p] EXCEPT
            !.pc = AfterLoadError(p),
            !.review_users = {},
            !.error = LoadError(permission),
            !.bad_read = permission,
            !.calls = @ + 1]

\* History: task q, which has read both lists and not stored them yet,
\* learns that p begins to read.
NoteFetch(q, p) ==
    IF q \in Tasks /\ p \in Tasks /\ proc[q].pc \in {"new", "publish_wait", "publish"}
    THEN [proc[q] EXCEPT !.fetched_before = @ \cup {p}]
    ELSE proc[q]

\* load_users_from_team_api(repo.name(), PermissionType::Review) returns r
LoadReview(p, r) ==
    /\ proc[p].pc = "load_review"
    /\ proc' = [q \in Procs |->
                 IF q = p
                 THEN [LoadUsersResult(p, "Review", r) EXCEPT !.fetched_at = now]
                 ELSE NoteFetch(q, p)]
    /\ UNCHANGED <<now, backs, cache, mutex, latest, parserVars>>

\* load_users_from_team_api(repo.name(), PermissionType::Try) returns r
LoadTry(p, r) ==
    /\ proc[p].pc = "load_try"
    /\ proc' = [proc EXCEPT ![p] = LoadUsersResult(p, "Try", r)]
    /\ UNCHANGED <<now, backs, cache, mutex, latest, parserVars>>

-----------------------------------------------------------------------------
(* TeamApiPermissionResolver::load *)

\* Ok(Self { repo, permissions: Mutex::new(CachedUserPermissions::new(..)) })
Construct ==
    /\ proc[Loader].pc = "new"
    /\ cache' = CachedUserPermissions_new(proc[Loader], now)
    /\ latest' = [snapshot |-> CachedUserPermissions_new(proc[Loader], now),
                  by_refresh |-> FALSE, replaced |-> NoCache,
                  fetched_at |-> proc[Loader].fetched_at,
                  older |-> {}, regressed |-> FALSE]
    /\ proc' = [proc EXCEPT ![Loader] = [IdleProc EXCEPT !.pc = "ready", !.calls = 2]]
    /\ UNCHANGED <<now, backs, mutex, parserVars>>

-----------------------------------------------------------------------------
(* PermissionResolver::has_permission and reload_permissions *)

\* A caller enters has_permission(username, permission) and waits for the
\* first lock().
Call(t, username, permission) ==
    /\ proc[Loader].pc = "ready"
    /\ proc[t].pc = "idle"
    /\ proc' = [proc EXCEPT ![t] =
                  [IdleProc EXCEPT
                     !.pc = "check_wait",
                     !.username = username,
                     !.permission = permission,
                     !.at_start = UserPermissions_has_permission(
                                      latest.snapshot, username, permission),
                     !.refreshed = latest.by_refresh]]
    /\ UNCHANGED <<now, backs, cache, mutex, latest, parserVars>>

\* self.permissions.lock().await is granted.
Lock(t, waiting, holding) ==
    /\ proc[t].pc = waiting
    /\ mutex = 0
    /\ mutex' = t
    /\ proc' = [proc EXCEPT ![t].pc = holding, ![t].locks = @ + 1]
    /\ UNCHANGED <<now, backs, cache, latest, parserVars>>

LockForCheck(t) == Lock(t, "check_wait", "check")

LockForPublish(t) == Lock(t, "publish_wait", "publish")

LockForRead(t) == Lock(t, "read_wait", "read")

\* Mutant of MutexAfterCheck: the guard lives until the end of the `if`
\* statement, as the temporaries of an `if let` or `match` scrutinee do.
MutexHeldWhileStale(t, stale) == IF stale THEN t ELSE 0

\* The mutex once the condition of `if ...lock().await.is_stale()` has been
\* evaluated: the guard is a temporary of the condition and is dropped there,
\* whatever the outcome.
MutexAfterCheck(t, stale) == 0

\* Mutant of AfterCheck: a single-flight guard, the refresh is skipped while
\* another task is refreshing.
AfterCheckSingleFlight(t, stale) ==
    IF /\ stale
       /\ \A u \in Tasks \ {t} :
             proc[u].pc \notin {"load_review", "load_try", "new",
                                "publish_wait", "publish"}
    THEN "load_review"
    ELSE "read_wait"

\* `if ...is_stale() { self.reload_permissions().await; }`: a stale snapshot
\* sends the caller into reload_permissions, whatever other callers do.
AfterCheck(t, stale) == IF stale THEN "load_review" ELSE "read_wait"

\* `.is_stale()` under the lock; the guard is dropped at the end of the
\* condition, before reload_permissions is entered.
CheckStale(t) ==
    /\ proc[t].pc = "check"
    /\ mutex = t
    /\ LET stale == is_stale(cache, now) IN
        /\ proc' = [proc EXCEPT
                      ![t].pc = AfterCheck(t, stale),
                      ![t].age = now - cache.created_at,
                      ![t].at_check = UserPermissions_has_permission(
                                          latest.snapshot, proc[t].username,
                                          proc[t].permission)]
        /\ mutex' = MutexAfterCheck(t, stale)
    /\ UNCHANGED <<now, backs, cache, latest, parserVars>>

\* Ok(perms) => ... CachedUserPermissions::new(perms): the assigned value is
\* evaluated before the assignee expression `*self.permissions.lock().await`.
New(t) ==
    /\ proc[t].pc = "new"
    /\ proc' = [proc EXCEPT ![t].pc = "publish_wait", ![t].created_at = now]
    /\ UNCHANGED <<now, backs, cache, mutex, latest, parserVars>>

\* History: every call that has not done its final read yet learns that a
\* snapshot was stored.
NoteStored(q) ==
    IF q \in Tasks /\ proc[q].pc \notin {"idle", "done"}
    THEN [proc[q] EXCEPT
            !.since_start = TRUE,
            !.since_check = (proc[q].pc \notin {"check_wait", "check"})]
    ELSE proc[q]

\* *guard = <new snapshot>; the guard is dropped at the end of the statement.
Publish(t) ==
    /\ proc[t].pc = "publish"
    /\ mutex = t
    /\ cache' = Replace(cache, NewSnapshot(t))
    /\ latest' = [snapshot |-> NewSnapshot(t), by_refresh |-> TRUE,
                  replaced |-> latest.snapshot,
                  fetched_at |-> proc[t].fetched_at,
                  older |-> {q \in Tasks \ {t} :
                                /\ t \in proc[q].fetched_before
                                /\ proc[q].pc \in {"new", "publish_wait"}},
                  regressed |-> t \in latest.older]
    /\ mutex' = 0
    /\ proc' = [q \in Procs |->
                 IF q = t
                 THEN [NoteStored(q) EXCEPT !.pc = "read_wait",
                                            !.review_users = {},
                                            !.try_users = {},
                                            !.created_at = -1,
                                            !.fetched_at = -1,
                                            !.fetched_before = {}]
                 ELSE NoteStored(q)]
    /\ UNCHANGED <<now, backs, parserVars>>

\* Mutant of ReadSnapshot: the reader still holds the replaced snapshot.
ReadReplacedSnapshot(t) == IF latest.by_refresh THEN latest.replaced ELSE cache

\* The snapshot the final read of has_permission looks at: the one in the
\* mutex.
ReadSnapshot(t) == cache

\* .permissions.has_permission(username, permission) under the lock
Read(t) ==
    /\ proc[t].pc = "read"
    /\ mutex = t
    /\ proc' = [proc EXCEPT
                  ![t].pc = "done",
                  ![t].result = UserPermissions_has_permission(
                                    ReadSnapshot(t), proc[t].username,
                                    proc[t].permission)]
    /\ mutex' = 0
    /\ UNCHANGED <<now, backs, cache, latest, parserVars>>

\* The caller takes the boolean; the task may call again.
Return(t) ==
    /\ proc[t].pc = "done"
    /\ proc' = [proc EXCEPT ![t] = IdleProc]
    /\ UNCHANGED <<now, backs, cache, mutex, latest, parserVars>>

-----------------------------------------------------------------------------

Init ==
    /\ now = 0
    /\ backs = 0
    /\ cache = NoCache
    /\ mutex = 0
    /\ latest = NoLatest
    /\ proc = [p \in Procs |->
                 IF p = Loader THEN [IdleProc EXCEPT !.pc = "load_review"]
                 ELSE IdleProc]
    /\ text = <<>>
    /\ next_line = 1
    /\ outcomes = <<>>

Next ==
    \/ \E c \in Times : Tick(c)
    \/ \E p \in Procs, r \in ReadResults : LoadReview(p, r)
    \/ \E p \in Procs, r \in ReadResults : LoadTry(p, r)
    \/ Construct
    \/ \E t \in Tasks, u \in QueryUsers, k \in PermissionType : Call(t, u, k)
    \/ \E t \in Tasks : LockForCheck(t)
    \/ \E t \in Tasks : CheckStale(t)
    \/ \E t \in Tasks : New(t)
    \/ \E t \in Tasks : LockForPublish(t)
    \/ \E t \in Tasks : Publish(t)
    \/ \E t \in Tasks : LockForRead(t)
    \/ \E t \in Tasks : Read(t)
    \/ \E t \in Tasks : Return(t)

\* The cache with a clock that only moves forwards.
Spec == Init /\ [][Next]_vars

ClockNext ==
    \/ Next
    \/ \E c \in Times : SetBack(c)

\* The cache with a system clock that may also be set backwards.
ClockSpec == Init /\ [][ClockNext]_vars

\* The steps of a call of task t that need no lock to be granted and no read
\* to succeed.
Proceed(t) ==
    \/ CheckStale(t)
    \/ \E r \in ReadResults : LoadReview(t, r)
    \/ \E r \in ReadResults : LoadTry(t, r)
    \/ New(t)
    \/ Publish(t)
    \/ Read(t)
    \/ Return(t)

\* lock().await is granted to task t.
Granted(t) == LockForCheck(t) \/ LockForPublish(t) \/ LockForRead(t)

\* A read of task t from the permission source succeeds.
ReviewOk(t) == \E r \in ReadResults : r.ok /\ LoadReview(t, r)
TryOk(t) == \E r \in ReadResults : r.ok /\ LoadTry(t, r)

\* Scheduling: the runtime polls every task that can proceed, every
\* load_users_from_team_api call returns, and the tokio Mutex is fair (FIFO).
Fairness ==
    /\ \A t \in Tasks : WF_vars(Proceed(t))
    /\ \A t \in Tasks : SF_vars(Granted(t))

\* Callers keep arriving, and neither list of the permission source fails
\* forever.
SourceFairness ==
    /\ WF_vars(\E t \in Tasks, u \in QueryUsers, k \in PermissionType : Call(t, u, k))
    /\ \A t \in Tasks : SF_vars(ReviewOk(t)) /\ SF_vars(TryOk(t))

\* The cache under fair scheduling.
LiveSpec == Init /\ [][Next]_vars /\ Fairness

\* The cache under fair scheduling, with callers that keep arriving and a
\* permission source that does not fail forever.
RecoverSpec == Init /\ [][Next]_vars /\ Fairness /\ SourceFairness

(***************************************************************************)
(* Part II.  src/bors/command/parser.rs                                    *)
(*                                                                         *)
(* A &str is a sequence of characters (one-character strings).             *)
(***************************************************************************)

\* Texts of one line have up to MaxTokens whitespace-separated tokens after
\* the prefix.
MaxTokens == 3
\* Texts of several lines have up to MaxLines lines.
MaxLines == 3

\* parse_sha: `input.len() != 40`
SHA_LENGTH == 40

NewLine == "\n"
\* char::is_whitespace, for the characters that occur in the texts
WhitespaceChars == {" ", "\t", "\r", NewLine}
\* Characters whose UTF-8 encoding takes two bytes.
TwoByteChars == {"é"}

\* CommandParser::new(prefix): the configured CMD_PREFIX
Prefix == <<"@", "b", "o", "r", "s">>

Str_ping == <<"p", "i", "n", "g">>
Str_try == <<"t", "r", "y">>
Str_cancel == <<"c", "a", "n", "c", "e", "l">>
Str_parent == <<"p", "a", "r", "e", "n", "t">>

None == <<>>
Some(x) == <<x>>

Min(S) == CHOOSE x \in S : \A y \in S : x <= y

\* Mutant of Utf8Len: every character counts as one.
Utf8LenOne(c) == 1

\* Bytes of one character in UTF-8.
Utf8Len(c) == IF c \in TwoByteChars THEN 2 ELSE 1

RECURSIVE str_len(_)
\* str::len: the length in bytes
str_len(s) == IF s = <<>> THEN 0 ELSE Utf8Len(Head(s)) + str_len(Tail(s))

\* Mutant of str_find: the last occurrence (rfind).
str_find_last(s, pat) ==
    LET at == {i \in 0..(Len(s) - Len(pat)) : SubSeq(s, i + 1, i + Len(pat)) = pat}
    IN IF at = {} THEN None ELSE Some(CHOOSE x \in at : \A y \in at : y <= x)

\* str::find(&prefix): index (from 0) of the first occurrence, or None
str_find(s, pat) ==
    LET at == {i \in 0..(Len(s) - Len(pat)) : SubSeq(s, i + 1, i + Len(pat)) = pat}
    IN IF at = {} THEN None ELSE Some(Min(at))

\* Mutant of starts_with: no token counts as a mention.
starts_with_never(s, c) == FALSE

\* str::starts_with(char)
starts_with(s, c) == Len(s) > 0 /\ s[1] = c

\* str::split_once('='): the parts before and after the first `=`, or None
split_once(s, c) ==
    LET at == {i \in 1..Len(s) : s[i] = c}
    IN IF at = {} THEN None
       ELSE Some([key |-> SubSeq(s, 1, Min(at) - 1),
                  value |-> SubSeq(s, Min(at) + 1, Len(s))])

RECURSIVE SplitFrom(_, _, _)
\* The maximal runs of characters outside `seps` in s, from position i on.
SplitFrom(s, i, seps) ==
    IF i > Len(s) THEN <<>>
    ELSE IF s[i] \in seps THEN SplitFrom(s, i + 1, seps)
    ELSE LET e == Min({j \in i..Len(s) : j = Len(s) \/ s[j + 1] \in seps})
         IN <<SubSeq(s, i, e)>> \o SplitFrom(s, e + 1, seps)

\* str::split_whitespace
split_whitespace(s) == SplitFrom(s, 1, WhitespaceChars)

RECURSIVE LinesFrom(_, _)
\* The lines of s from position i on: each ends at a "\n" (or at the end of
\* the text) and loses a "\r" before it; nothing follows a final "\n".
LinesFrom(s, i) ==
    IF i > Len(s) THEN <<>>
    ELSE LET ends == {j \in i..Len(s) : s[j] = NewLine}
             e == IF ends = {} THEN Len(s) + 1 ELSE Min(ends)
             raw == SubSeq(s, i, e - 1)
             line == IF ends # {} /\ raw # <<>> /\ raw[Len(raw)] = "\r"
                     THEN SubSeq(raw, 1, Len(raw) - 1) ELSE raw
         IN <<line>> \o LinesFrom(s, e + 1)

\* str::lines
lines(s) == LinesFrom(s, 1)

\* enum CommandPart
Bare(s) == [bare |-> TRUE, key |-> s, value |-> <<>>]
KeyValue(k, v) == [bare |-> FALSE, key |-> k, value |-> v]

\* Result<BorsCommand, CommandParseError>: a tag, the &str or CommitSha it
\* carries (`some` tells whether it carries one) and the String of a
\* ValidationError.
Outcome(tag, some, arg, msg) == [tag |-> tag, some |-> some, arg |-> arg, msg |-> msg]
OkPing == Outcome("Ping", FALSE, <<>>, "")
OkTryCancel == Outcome("TryCancel", FALSE, <<>>, "")
OkTry(parent) ==
    IF parent = None THEN Outcome("Try", FALSE, <<>>, "")
    ELSE Outcome("Try", TRUE, parent[1], "")
ErrMissingCommand == Outcome("MissingCommand", FALSE, <<>>, "")
ErrUnknownCommand(name) == Outcome("UnknownCommand", TRUE, name, "")
ErrMissingArgValue(arg) == Outcome("MissingArgValue", TRUE, arg, "")
ErrUnknownArg(arg) == Outcome("UnknownArg", TRUE, arg, "")
ErrDuplicateArg(key) == Outcome("DuplicateArg", TRUE, key, "")
ErrValidationError(msg) == Outcome("ValidationError", FALSE, <<>>, msg)
IsOk(r) == r.tag \in {"Ping", "Try", "TryCancel"}

\* Mutant of SeenKey: repeated keys go unnoticed.
SeenKeyNever(seen_keys, key) == FALSE

\* seen_keys.contains(key)
SeenKey(seen_keys, key) == key \in seen_keys

RECURSIVE ParsePartsFrom(_, _, _, _)
\* The loop of parse_parts over the items from the i-th on.
ParsePartsFrom(items, i, parts, seen_keys) ==
    IF i > Len(items) THEN [ok |-> TRUE, parts |-> parts, err |-> ErrMissingCommand]
    ELSE IF starts_with(items[i], "@")
    THEN [ok |-> TRUE, parts |-> parts, err |-> ErrMissingCommand]
    ELSE LET kv == split_once(items[i], "=") IN
         IF kv = None
         THEN ParsePartsFrom(items, i + 1, Append(parts, Bare(items[i])), seen_keys)
         ELSE IF kv[1].value = <<>>
         THEN [ok |-> FALSE, parts |-> <<>>, err |-> ErrMissingArgValue(kv[1].key)]
         ELSE IF SeenKey(seen_keys, kv[1].key)
         THEN [ok |-> FALSE, parts |-> <<>>, err |-> ErrDuplicateArg(kv[1].key)]
         ELSE ParsePartsFrom(items, i + 1,
                             Append(parts, KeyValue(kv[1].key, kv[1].value)),
                             seen_keys \cup {kv[1].key})

\* parse_parts: [ok, parts] for Ok(parts), [~ok, err] for Err(err)
parse_parts(input) == ParsePartsFrom(split_whitespace(input), 1, <<>>, {})

\* Mutant of parser_ping: `ping` is claimed only when nothing follows it.
parser_ping_bare(command, parts) ==
    IF command = Str_ping /\ parts = <<>> THEN Some(OkPing) ELSE None

\* parser_ping
parser_ping(command, parts) ==
    IF command = Str_ping THEN Some(OkPing) ELSE None

ShaError == "SHA must have exactly 40 characters"

\* Mutant of parse_sha: only values that are too short are rejected.
parse_sha_min(input) ==
    IF str_len(input) < SHA_LENGTH THEN [ok |-> FALSE, sha |-> <<>>, err |-> ShaError]
    ELSE [ok |-> TRUE, sha |-> input, err |-> ""]

\* parse_sha
parse_sha(input) ==
    IF str_len(input) # SHA_LENGTH THEN [ok |-> FALSE, sha |-> <<>>, err |-> ShaError]
    ELSE [ok |-> TRUE, sha |-> input, err |-> ""]

\* format!("Try parent has to be a valid commit SHA: {error}")
TryParentError(error) ==
    IF error = ShaError
    THEN "Try parent has to be a valid commit SHA: SHA must have exactly 40 characters"
    ELSE "Try parent has to be a valid commit SHA: ?"

RECURSIVE ParserTryFrom(_, _, _)
\* The loop of parser_try over the parts from the i-th on.
ParserTryFrom(parts, i, parent) ==
    IF i > Len(parts) THEN Some(OkTry(parent))
    ELSE IF parts[i].bare THEN Some(ErrUnknownArg(parts[i].key))
    ELSE IF parts[i].key = Str_parent
    THEN LET sha == parse_sha(parts[i].value) IN
         IF sha.ok THEN ParserTryFrom(parts, i + 1, Some(sha.sha))
         ELSE Some(ErrValidationError(TryParentError(sha.err)))
    ELSE Some(ErrUnknownArg(parts[i].key))

\* Mutant of parser_try: the loop starts at the second part.
parser_try_from_second(command, parts) ==
    IF command # Str_try THEN None ELSE ParserTryFrom(parts, 2, None)

\* parser_try
parser_try(command, parts) ==
    IF command # Str_try THEN None ELSE ParserTryFrom(parts, 1, None)

\* parser_try_cancel
parser_try_cancel(command, parts) ==
    IF command = Str_try /\ Len(parts) >= 1 /\ parts[1] = Bare(Str_cancel)
    THEN Some(OkTryCancel)
    ELSE None

\* Mutant of Parsers: the generic try parser comes before try cancel.
ParsersTryFirst == <<"parser_ping", "parser_try", "parser_try_cancel">>

\* vec![parser_ping, parser_try_cancel, parser_try]
Parsers == <<"parser_ping", "parser_try_cancel", "parser_try">>

RunParser(parser, command, rest) ==
    IF parser = "parser_ping" THEN parser_ping(command, rest)
    ELSE IF parser = "parser_try_cancel" THEN parser_try_cancel(command, rest)
    ELSE parser_try(command, rest)

RECURSIVE TryParsersFrom(_, _, _)
\* `for parser in &parsers`: the first Some(result) is returned.
TryParsersFrom(n, command, rest) ==
    IF n > Len(Parsers) THEN ErrUnknownCommand(command)
    ELSE LET result == RunParser(Parsers[n], command, rest) IN
         IF result # None THEN result[1]
         ELSE TryParsersFrom(n + 1, command, rest)

\* The Ok(parts) arm of the closure in parse_commands.
resolve(parts) ==
    IF parts = <<>> THEN ErrMissingCommand
    ELSE IF parts[1].bare THEN TryParsersFrom(1, parts[1].key, Tail(parts))
    ELSE ErrMissingCommand

\* `&line[index + self.prefix.len()..]` for the first occurrence of the prefix
command_of(line) ==
    LET index == str_find(line, Prefix)[1] IN
    SubSeq(line, index + Len(Prefix) + 1, Len(line))

\* Mutant of parse_line: a first token that is no known command name is
\* reported before the rest of the line is split.
parse_line_name_first(line) ==
    IF str_find(line, Prefix) = None THEN None
    ELSE LET items == split_whitespace(command_of(line))
             parsed == parse_parts(command_of(line)) IN
         IF /\ items # <<>>
            /\ ~starts_with(items[1], "@")
            /\ split_once(items[1], "=") = None
            /\ items[1] \notin {Str_ping, Str_try}
         THEN Some(ErrUnknownCommand(items[1]))
         ELSE IF parsed.ok THEN Some(resolve(parsed.parts)) ELSE Some(parsed.err)

\* The closure of filter_map in parse_commands: None for a line without the
\* prefix, otherwise Some(outcome).
parse_line(line) ==
    IF str_find(line, Prefix) = None THEN None
    ELSE LET parsed == parse_parts(command_of(line)) IN
         IF parsed.ok THEN Some(resolve(parsed.parts)) ELSE Some(parsed.err)

-----------------------------------------------------------------------------
(* The texts parse_commands is applied to *)

Repeat(c, n) == [i \in 1..n |-> c]
\* A 40-byte value as in tests::parse_try_parent.
Sha40 == <<"e", "a", "9", "c", "1", "b", "0", "5", "0", "c", "c", "8", "b", "4", "2", "0", "c", "2", "c", "2", "1", "1", "d", "2", "1", "7", "7", "8", "1", "1", "e", "5", "6", "4", "a", "4", "d", "c", "6", "0">>
\* 20 characters, 40 bytes.
TwentyWide == Repeat("é", 20)
\* 40 characters, 41 bytes.
FortyWithWide == Repeat("c", 39) \o <<"é">>

Vocabulary ==
    { Str_ping, Str_try, Str_cancel, <<"f", "o", "o">>,
      Str_parent \o <<"=">> \o Sha40,
      Str_parent \o <<"=">> \o <<"f", "o", "o">>,
      Str_parent \o <<"=">> \o TwentyWide,
      Str_parent \o <<"=">> \o FortyWithWide,
      <<"a", "=", "b">>, <<"a", "=", "c">>, <<"a", "=">>, <<"@", "r", "u", "s", "t", "-", "t", "i", "m", "e", "r">> }

RECURSIVE Join(_)
\* The tokens, each preceded by one space.
Join(tokens) ==
    IF tokens = <<>> THEN <<>> ELSE <<" ">> \o Head(tokens) \o Join(Tail(tokens))

TokenSeqs == UNION {[1..n -> Vocabulary] : n \in 0..MaxTokens}

\* One-line texts: the prefix and up to MaxTokens tokens.
OneLineTexts == {Prefix \o Join(ts) : ts \in TokenSeqs}

\* Lines of the texts of several lines: without the prefix, with the prefix
\* at the start or inside, with and without errors.
SampleLines ==
    { <<"l", "i", "n", "e", " ", "o", "n", "e">>,
      <<>>,
      Prefix \o <<" ", "t", "r", "y">>,
      <<"h", "i", " ">> \o Prefix \o <<" ", "p", "i", "n", "g", " ", "a", "=", "b", " ", "a", "=", "c">>,
      Prefix \o <<" ", "t", "r", "y", " ", "c", "a", "n", "c", "e", "l">> \o <<"\r">>,
      Prefix \o <<" ", "f", "o", "o", " ">> \o Prefix \o <<" ", "p", "i", "n", "g">> }

RECURSIVE JoinLines(_)
JoinLines(ls) ==
    IF ls = <<>> THEN <<>>
    ELSE IF Len(ls) = 1 THEN ls[1]
    ELSE ls[1] \o <<NewLine>> \o JoinLines(Tail(ls))

ManyLineTexts ==
    {JoinLines(ls) : ls \in UNION {[1..n -> SampleLines] : n \in 2..MaxLines}}

Texts == OneLineTexts \cup ManyLineTexts

-----------------------------------------------------------------------------
(* CommandParser::parse_commands: text.lines().filter_map(...).collect() *)

\* The closure returns Some(outcome) for the next line: it is collected.
ParseLine ==
    /\ next_line <= Len(lines(text))
    /\ parse_line(lines(text)[next_line]) # None
    /\ outcomes' = Append(outcomes, parse_line(lines(text)[next_line])[1])
    /\ next_line' = next_line + 1
    /\ UNCHANGED <<text, cacheVars>>

\* The closure returns None for the next line: the prefix is not in it.
SkipLine ==
    /\ next_line <= Len(lines(text))
    /\ parse_line(lines(text)[next_line]) = None
    /\ next_line' = next_line + 1
    /\ UNCHANGED <<text, outcomes, cacheVars>>

ParserInit ==
    /\ text \in Texts
    /\ next_line = 1
    /\ outcomes = <<>>
    /\ now = 0
    /\ backs = 0
    /\ cache = NoCache
    /\ mutex = 0
    /\ latest = NoLatest
    /\ proc = [p \in Procs |-> IdleProc]

ParserNext == ParseLine \/ SkipLine

\* parse_commands on every text of Texts.
ParserSpec == ParserInit /\ [][ParserNext]_vars

-----------------------------------------------------------------------------
(* Properties of the permission cache *)

Ready == proc[Loader].pc = "ready"
Done(t) == proc[t].pc = "done"
\* The pcs at which a call has observed the snapshot's age.
Checked(t) == proc[t].pc \notin {"idle", "check_wait", "check"}
\* The pcs at which a task is inside load_permissions or new().
Fetching(t) == proc[t].pc \in {"load_review", "load_try", "new"}
\* The pcs at which a task is inside one of the three lock scopes.
InLockScope(t) == proc[t].pc \in {"check", "publish", "read"}
\* Process p takes a step.
Steps(p) == proc'[p].pc # proc[p].pc
\* The answer snapshot s gives to the query of task t.
Answer(s, t) ==
    UserPermissions_has_permission(s, proc[t].username, proc[t].permission)

\* C1 as stated: a query whose refresh failed returns the membership of the
\* user in the snapshot it had observed as stale.
C1_AnswersFromObservedSnapshot ==
    \A t \in Tasks :
        (Done(t) /\ proc[t].error # NoError) => proc[t].result = proc[t].at_check

C1_State ==
    \A t \in Tasks :
        /\ proc[t].error # NoError => proc[t].pc \in {"read_wait", "read", "done"}
        /\ (Done(t) /\ proc[t].error # NoError) =>
              /\ proc[t].result \in BOOLEAN
              /\ proc[t].calls \in {1, 2}
              /\ ~proc[t].since_check => proc[t].result = proc[t].at_check

C1_Step ==
    \A t \in Tasks :
        (Steps(t) /\ proc'[t].error # NoError) => cache' = cache

\* C1 (amended): when the refresh of a query fails, none of that query's steps
\* changes the cached snapshot, the query goes on to its final read and
\* returns a boolean; the boolean is the membership in the snapshot it had
\* observed as stale unless another task stored a snapshot before the final
\* read.
C1_FailedRefreshKeepsSnapshot == []C1_State /\ [][C1_Step]_vars

C1_Witness ==
    \E t \in Tasks :
        /\ Done(t) /\ proc[t].error # NoError
        /\ proc[t].age > CACHE_DURATION
        /\ ~proc[t].since_check
        /\ proc[t].result

\* C2 as stated: a query that starts after a refresh has stored a snapshot
\* answers from that snapshot's membership.
C2_AnswersFromSnapshotAtStart ==
    \A t \in Tasks :
        (Done(t) /\ proc[t].refreshed) => proc[t].result = proc[t].at_start

C2_State ==
    \A t \in Tasks :
        (Done(t) /\ proc[t].refreshed /\ ~proc[t].since_start) =>
            proc[t].result = proc[t].at_start

C2_Step ==
    \A t \in Tasks :
        (proc[t].pc = "publish" /\ Steps(t)) =>
            /\ proc[t].calls = 2 /\ proc[t].error = NoError
            /\ cache'.review_users = proc[t].review_users
            /\ cache'.try_users = proc[t].try_users

\* C2 (amended): a successful refresh stores exactly the two user lists it
\* loaded; a query that starts after it and does its final read before any
\* further snapshot is stored answers from that snapshot's membership.
C2_RefreshedSnapshotAnswers == []C2_State /\ [][C2_Step]_vars

C2_Witness ==
    \E t \in Tasks :
        /\ Done(t) /\ proc[t].refreshed /\ ~proc[t].since_start
        /\ latest.by_refresh /\ cache = latest.snapshot
        /\ proc[t].result
        /\ ~Answer(latest.replaced, t)

C3_State == Ready => cache = latest.snapshot

C3_Step ==
    \A t \in Tasks :
        (proc[t].pc = "read" /\ Steps(t)) =>
            proc'[t].result = Answer(latest.snapshot, t)

\* C3: the mutex holds the snapshot stored last, and the final read of every
\* query answers from the snapshot stored last at that instant, which is S or
\* a later one for every S stored before the query began.
C3_ReadsLatestSnapshot == []C3_State /\ [][C3_Step]_vars

C3_Witness ==
    \E t \in Tasks :
        /\ Done(t) /\ proc[t].refreshed /\ proc[t].since_start
        /\ proc[t].result # proc[t].at_start

\* C4: a query whose staleness check saw an age of 0..CACHE_DURATION seconds
\* makes no load_users_from_team_api call and goes straight to its final read.
C4_FreshMakesNoCall ==
    \A t \in Tasks :
        (Checked(t) /\ proc[t].age >= 0 /\ proc[t].age <= CACHE_DURATION) =>
            /\ proc[t].calls = 0
            /\ proc[t].error = NoError
            /\ proc[t].pc \in {"read_wait", "read", "done"}

C4_Witness ==
    \E t \in Tasks :
        Done(t) /\ proc[t].age = CACHE_DURATION /\ proc[t].calls = 0

\* C5: load() fails exactly when one of the two initial reads fails; the
\* error names the list whose read failed; the review list is read first and
\* its failure ends load() before the try list is read; no cache exists
\* unless both reads succeeded, and then it holds the lists that were read.
C5_InitialLoadFailureIsFatal ==
    LET L == proc[Loader] IN
    /\ L.bad_read # "none" <=> L.pc = "failed"
    /\ L.pc = "failed" =>
          /\ cache = NoCache
          /\ L.error = LoadError(L.bad_read)
          /\ L.error # NoError
          /\ L.calls = (IF L.bad_read = "Review" THEN 1 ELSE 2)
    /\ L.pc = "load_try" => L.calls = 1
    /\ cache # NoCache <=> L.pc = "ready"
    /\ cache # NoCache =>
          /\ cache.review_users \in UserSets
          /\ cache.try_users \in UserSets
    /\ L.pc # "ready" => \A t \in Tasks : proc[t].pc = "idle"

C5_Witness ==
    /\ proc[Loader].pc = "failed"
    /\ proc[Loader].error = "Cannot load try users"
    /\ proc[Loader].calls = 2
    /\ cache = NoCache

\* C6: a task holds the mutex exactly while it is inside one of the three
\* lock scopes, each of which ends in one step: never while it is in
\* load_permissions or new().
C6_NoLockDuringFetch ==
    /\ mutex \in {0} \cup Tasks
    /\ \A t \in Tasks :
          /\ mutex = t <=> InLockScope(t)
          /\ Fetching(t) => mutex # t

C6_Witness ==
    \E t, u \in Tasks :
        /\ proc[u].pc \in {"load_review", "load_try"}
        /\ proc[t].pc = "read" /\ mutex = t
        /\ proc[t].calls = 0

C7_State ==
    /\ Ready => cache = latest.snapshot
    /\ ~Ready => cache = NoCache
    /\ \A t \in Tasks : InLockScope(t) => mutex = t

C7_Step ==
    cache' # cache =>
        \/ proc[Loader].pc = "new" /\ cache = NoCache
        \/ \E t \in Tasks :
              /\ proc[t].pc = "publish" /\ mutex = t
              /\ cache' = NewSnapshot(t)

\* C7: the cache holds exactly the snapshot last built by new() from one
\* load; it changes only when a refresh, holding the mutex, replaces all
\* three fields by the ones it built; every check and read holds the mutex.
C7_SnapshotIsWhole == []C7_State /\ [][C7_Step]_vars

C7_Witness ==
    /\ latest.by_refresh
    /\ cache.created_at > latest.replaced.created_at
    /\ cache.review_users # latest.replaced.review_users
    /\ cache.try_users = latest.replaced.try_users
    /\ \E t \in Tasks : proc[t].pc = "read"


\* The cache exists and is_stale() would return true now.
Stale == Ready /\ is_stale(cache, now)
\* Task t is between the two reads of load_permissions.
BetweenReads(t) == proc[t].pc = "load_try"

C16_State ==
    \A t \in Tasks :
        (Checked(t) /\ proc[t].age > CACHE_DURATION) =>
            (proc[t].pc = "load_review" \/ proc[t].calls >= 1)

C16_Step ==
    \A t \in Tasks :
        (proc[t].pc = "read" /\ Steps(t)) =>
            /\ proc'[t].pc = "done"
            /\ proc'[t].result = Answer(cache, t)

\* C16: every call whose staleness check saw a stale snapshot goes on to
\* load_permissions, whatever the other calls are doing, and every call
\* answers from the snapshot that is in the mutex at its final read.
C16_EveryStaleCheckRefreshes == []C16_State /\ [][C16_Step]_vars

\* Two calls have seen the snapshot of load() stale before any refresh has
\* stored one, and both are inside load_permissions at once.
C16_Witness ==
    /\ ~latest.by_refresh
    /\ \A t \in Tasks : BetweenReads(t) /\ proc[t].age > CACHE_DURATION

C17_Step ==
    /\ (Stale /\ ~is_stale(cache', now')) =>
          \E t \in Tasks :
              proc[t].pc = "publish" /\ Steps(t) /\ proc[t].error = NoError
    /\ \A t \in Tasks :
          /\ (proc[t].pc = "publish" /\ Steps(t)) => ~is_stale(cache', now')
          /\ (proc[t].pc = "check" /\ Steps(t) /\ Stale) =>
                proc'[t].pc = "load_review"
          /\ (Steps(t) /\ proc'[t].error # NoError) =>
                cache'.created_at = cache.created_at

\* C17: a failed refresh leaves created_at as it is; a stale snapshot stays
\* stale until a refresh succeeds; every call that finds it stale attempts a
\* refresh; the store of a successful refresh leaves a fresh snapshot; and
\* under fair scheduling, with callers arriving and reads that do not fail
\* forever, a stale snapshot is eventually replaced by a fresh one.
C17_StaleLeadsToFresh ==
    [][C17_Step]_vars /\ (Stale ~> (Ready /\ ~is_stale(cache, now)))

\* A call whose refresh failed has returned from its final read with the
\* stale snapshot still in place, and a later refresh has stored a fresh one.
C17_Witness ==
    /\ latest.by_refresh /\ Ready /\ ~is_stale(cache, now)
    /\ \E t \in Tasks :
          /\ Done(t) /\ proc[t].error # NoError
          /\ proc[t].age > CACHE_DURATION
          /\ ~proc[t].since_check

\* C18 as stated: no refresh stores lists that were read before the lists of
\* the snapshot it replaces were read, and no snapshot is found fresh more
\* than CACHE_DURATION seconds after its lists were read.
C18_PublishedDataMonotone ==
    /\ ~latest.regressed
    /\ \A t \in Tasks :
          (proc[t].pc = "check" /\ ~is_stale(cache, now)) =>
              now - latest.fetched_at <= CACHE_DURATION

C19_State ==
    \A t \in Tasks :
        /\ proc[t].locks \in 0..3
        /\ proc[t].pc \in {"check_wait", "publish_wait", "read_wait"} => mutex # t
        /\ mutex = t => proc[t].pc \in {"check", "publish", "read"}
        /\ Done(t) => proc[t].result \in BOOLEAN /\ proc[t].locks \in {2, 3}

\* C19: a call takes the lock at most three times, never while it holds it,
\* and under fair scheduling (every read returns, the lock is granted
\* fairly) every call reaches its final read and returns a boolean.
C19_CallsTerminate ==
    /\ []C19_State
    /\ \A t \in Tasks : (proc[t].pc # "idle") ~> Done(t)

\* A call has returned after three lock() calls while the other call is
\* still under way.
C19_Witness ==
    \E t, u \in Tasks :
        /\ Done(t) /\ proc[t].locks = 3
        /\ proc[u].pc \notin {"idle", "done"}
        /\ proc[u].calls >= 1

-----------------------------------------------------------------------------
(* Properties of the command parser *)

\* The line parse_commands handled last contains the prefix.
Parsed == next_line > 1 /\ str_find(lines(text)[next_line - 1], Prefix) # None
LastLine == lines(text)[next_line - 1]
\* The outcome collected for it.
LastOutcome == outcomes[Len(outcomes)]
\* What the splitter makes of it.
LastParts == parse_parts(command_of(LastLine))
\* Its whitespace-separated tokens after the prefix.
LastItems == split_whitespace(command_of(LastLine))
IsKeyValueToken(item) == split_once(item, "=") # None
KeyOf(item) == split_once(item, "=")[1].key
ValueOf(item) == split_once(item, "=")[1].value

\* C8  When the splitter succeeds on a line and the command name is `try`:
\* if the first remaining part is the bare token `cancel` the outcome is
\* Ok(TryCancel), whatever parts follow (the try parser, which would reject
\* `cancel` as an unknown argument, does not decide); otherwise the outcome
\* is not TryCancel but one of the try parser's.
C8_TryCancelBeforeTry ==
    (Parsed /\ LastParts.ok /\ LastParts.parts # <<>>
        /\ LastParts.parts[1] = Bare(Str_try))
    => IF Len(LastParts.parts) >= 2 /\ LastParts.parts[2] = Bare(Str_cancel)
       THEN LastOutcome = OkTryCancel
       ELSE LastOutcome.tag \in {"Try", "UnknownArg", "ValidationError"}

\* `try cancel parent=foo`: the part after `cancel` would fail validation,
\* and the outcome is Ok(TryCancel).
C8_Witness ==
    /\ Parsed /\ LastParts.ok /\ Len(LastParts.parts) = 3
    /\ LastParts.parts[1] = Bare(Str_try)
    /\ LastParts.parts[2] = Bare(Str_cancel)
    /\ ~LastParts.parts[3].bare
    /\ LastParts.parts[3].key = Str_parent
    /\ ~parse_sha(LastParts.parts[3].value).ok
    /\ LastOutcome = OkTryCancel

\* The positions of the key/value tokens whose key is the key of an earlier
\* key/value token.
Repeats(items) ==
    {j \in 1..Len(items) :
        /\ IsKeyValueToken(items[j])
        /\ \E i \in 1..(j - 1) :
              IsKeyValueToken(items[i]) /\ KeyOf(items[i]) = KeyOf(items[j])}

\* C9 as stated: whenever a key k is repeated among the key/value tokens of
\* a line, the outcome of the line is DuplicateArg(k).
C9_RepeatedKeyIsDuplicateArg ==
    Parsed =>
        \A j \in Repeats(LastItems) :
            LastOutcome = ErrDuplicateArg(KeyOf(LastItems[j]))

\* C9  Let the j-th token be the first key/value token whose key is the key
\* of an earlier key/value token.  If no token up to the j-th starts with
\* `@` and no key/value token up to the j-th has an empty value, the outcome
\* of the line is DuplicateArg of that key, whatever follows the j-th token.
C9_FirstRepeatIsDuplicateArg ==
    (Parsed /\ Repeats(LastItems) # {}
        /\ \A i \in 1..Min(Repeats(LastItems)) :
              /\ ~starts_with(LastItems[i], "@")
              /\ IsKeyValueToken(LastItems[i]) => ValueOf(LastItems[i]) # <<>>)
    => LastOutcome = ErrDuplicateArg(KeyOf(LastItems[Min(Repeats(LastItems))]))

\* A key occurs three times and the outcome is DuplicateArg of it.
C9_Witness ==
    /\ Parsed
    /\ Cardinality(Repeats(LastItems)) >= 2
    /\ \A j \in Repeats(LastItems) : KeyOf(LastItems[j]) = KeyOf(LastItems[1])
    /\ LastOutcome = ErrDuplicateArg(KeyOf(LastItems[1]))

\* The line has a token `parent=V` with V of a length other than 40, in
\* characters and in bytes.
HasBadParent(items) ==
    \E i \in 1..Len(items) :
        /\ IsKeyValueToken(items[i])
        /\ KeyOf(items[i]) = Str_parent
        /\ Len(ValueOf(items[i])) # SHA_LENGTH
        /\ str_len(ValueOf(items[i])) # SHA_LENGTH

C11_FortyCharactersAccepted ==
    (Parsed /\ Len(LastItems) = 2 /\ LastItems[1] = Str_try
        /\ IsKeyValueToken(LastItems[2])
        /\ KeyOf(LastItems[2]) = Str_parent
        /\ Len(ValueOf(LastItems[2])) = SHA_LENGTH)
    => LastOutcome = OkTry(Some(ValueOf(LastItems[2])))

\* C11, for lengths in bytes: `<prefix> try parent=V` with V of 40 bytes
\* gives Ok(Try{parent: Some(V)}), whatever the characters of V are.
C11_FortyBytesAccepted ==
    (Parsed /\ Len(LastItems) = 2 /\ LastItems[1] = Str_try
        /\ IsKeyValueToken(LastItems[2])
        /\ KeyOf(LastItems[2]) = Str_parent
        /\ str_len(ValueOf(LastItems[2])) = SHA_LENGTH)
    => LastOutcome = OkTry(Some(ValueOf(LastItems[2])))

\* The positions in s at which a whitespace-separated token starts.
ItemStarts(s) ==
    {i \in 1..Len(s) :
        s[i] \notin WhitespaceChars /\ (i = 1 \/ s[i - 1] \in WhitespaceChars)}
\* Those of the tokens that start with `@`.
MentionStarts(s) == {i \in ItemStarts(s) : s[i] = "@"}
HasMention(line) == MentionStarts(command_of(line)) # {}
\* The line cut immediately before the first token after the prefix that
\* starts with `@` (the whole line when there is none).
CutBeforeMention(line) ==
    IF ~HasMention(line) THEN line
    ELSE SubSeq(line, 1, (Len(line) - Len(command_of(line)))
                             + Min(MentionStarts(command_of(line))) - 1)

\* C12  The outcome of a line is the outcome of the line cut immediately
\* before the first token after the prefix that starts with `@`, and when
\* the splitter succeeds its parts are as many as the tokens before that
\* token.
C12_MentionTruncates ==
    Parsed =>
        /\ parse_line(CutBeforeMention(LastLine)) = Some(LastOutcome)
        /\ LastParts.ok =>
              Len(LastParts.parts)
                  = Len(split_whitespace(command_of(CutBeforeMention(LastLine))))

\* `try @rust-timer a=`: the token after the mention has no value, and the
\* outcome is Ok(Try{parent: None}).
C12_Witness ==
    /\ Parsed /\ HasMention(LastLine)
    /\ Len(LastItems) = 3
    /\ ~starts_with(LastItems[1], "@")
    /\ starts_with(LastItems[2], "@")
    /\ IsKeyValueToken(LastItems[3]) /\ ValueOf(LastItems[3]) = <<>>
    /\ LastOutcome = OkTry(None)

Occurrences(line) ==
    {i \in 1..(Len(line) - Len(Prefix) + 1) :
        SubSeq(line, i, i + Len(Prefix) - 1) = Prefix}
\* The outcome of a line that contains the prefix, taken alone: what follows
\* the first occurrence of the prefix is split and resolved.
Alone(line) ==
    LET parsed == parse_parts(SubSeq(line, Min(Occurrences(line)) + Len(Prefix),
                                     Len(line)))
    IN IF parsed.ok THEN resolve(parsed.parts) ELSE parsed.err

RECURSIVE OutcomesOf(_, _)
\* The outcomes of the first n lines of ls: one for each line that contains
\* the prefix, in the order of the lines.
OutcomesOf(ls, n) ==
    IF n = 0 THEN <<>>
    ELSE OutcomesOf(ls, n - 1)
             \o (IF Occurrences(ls[n]) # {} THEN <<Alone(ls[n])>> ELSE <<>>)

\* C14  After any number of lines, the outcomes collected are those of the
\* lines that contain the prefix, each parsed alone from the first
\* occurrence of the prefix, in the order of the lines; lines without the
\* prefix contribute nothing.
C14_OneOutcomePerPrefixedLine ==
    outcomes = OutcomesOf(lines(text), next_line - 1)

\* A text of three lines: one with a repeated key, then one without the
\* prefix, then a valid one; two outcomes, the error and the command.
C14_Witness ==
    /\ Len(lines(text)) = 3 /\ next_line = 4
    /\ Occurrences(lines(text)[1]) # {}
    /\ Min(Occurrences(lines(text)[1])) > 1
    /\ Occurrences(lines(text)[2]) = {}
    /\ Occurrences(lines(text)[3]) # {}
    /\ Len(outcomes) = 2
    /\ outcomes[1].tag = "DuplicateArg"
    /\ outcomes[2] = OkTry(None)

\* The parts after the command name, when the splitter succeeds.
LastRest == Tail(LastParts.parts)
\* The line is left to parser_try: the command name is `try` and the first
\* remaining part is not the bare token `cancel`.
ClaimedByTry ==
    /\ Parsed /\ LastParts.ok /\ LastParts.parts # <<>>
    /\ LastParts.parts[1] = Bare(Str_try)
    /\ ~(LastRest # <<>> /\ LastRest[1] = Bare(Str_cancel))
Offends(part) ==
    \/ part.bare
    \/ part.key # Str_parent
    \/ str_len(part.value) # SHA_LENGTH
Offending == {i \in 1..Len(LastRest) : Offends(LastRest[i])}
Parents == {i \in 1..Len(LastRest) : ~LastRest[i].bare /\ LastRest[i].key = Str_parent}

\* C15  On a line left to parser_try the first offending remaining part
\* decides: a bare token t gives UnknownArg(t), a pair with a key k other
\* than `parent` gives UnknownArg(k), a `parent` pair whose value is not
\* valid gives ValidationError; with no offending part the outcome is
\* Ok(Try{parent}), parent being the value of the `parent` pair if there is
\* one and None otherwise.
C15_FirstOffendingPartDecides ==
    ClaimedByTry =>
        IF Offending = {}
        THEN LastOutcome =
                 (IF Parents = {} THEN OkTry(None)
                  ELSE OkTry(Some(LastRest[Min(Parents)].value)))
        ELSE LET part == LastRest[Min(Offending)] IN
             IF part.bare \/ part.key # Str_parent
             THEN LastOutcome = ErrUnknownArg(part.key)
             ELSE LastOutcome = ErrValidationError(TryParentError(ShaError))

\* `try foo parent=foo` and the like: two offending parts, the second an
\* invalid `parent` pair, and the outcome is UnknownArg of the first.
C15_Witness ==
    /\ ClaimedByTry /\ Len(LastRest) = 2
    /\ Offending = {1, 2}
    /\ 2 \in Parents
    /\ LastOutcome = ErrUnknownArg(LastRest[1].key)

\* The tokens the splitter looks at: those before the first one that starts
\* with `@`.
Scanned(items) ==
    SubSeq(items, 1,
           Min({i \in 1..Len(items) : starts_with(items[i], "@")}
                   \cup {Len(items) + 1}) - 1)
\* The positions of the tokens the splitter rejects: a key/value token with
\* an empty value or with the key of an earlier key/value token.
Rejected(items) ==
    {j \in 1..Len(items) :
        /\ IsKeyValueToken(items[j])
        /\ \/ ValueOf(items[j]) = <<>>
           \/ j \in Repeats(items)}
LexicalError(items) ==
    LET item == items[Min(Rejected(items))] IN
    IF ValueOf(item) = <<>> THEN ErrMissingArgValue(KeyOf(item))
    ELSE ErrDuplicateArg(KeyOf(item))

\* C20  When a token before the first `@` token is rejected by the splitter,
\* the outcome is the error of the first such token, whatever the first
\* token is.  Otherwise the outcome is MissingCommand exactly when there is
\* no token before the first `@` token or the first is a key/value token,
\* and UnknownCommand(name) exactly when the first token is a bare token
\* `name` other than `ping` and `try`.
C20_LexicalErrorsFirst ==
    Parsed =>
        LET items == Scanned(LastItems) IN
        IF Rejected(items) # {} THEN LastOutcome = LexicalError(items)
        ELSE /\ LastOutcome.tag = "MissingCommand"
                  <=> (items = <<>> \/ IsKeyValueToken(items[1]))
             /\ LastOutcome.tag = "UnknownCommand"
                  <=> /\ items # <<>>
                      /\ ~IsKeyValueToken(items[1])
                      /\ items[1] \notin {Str_ping, Str_try}
             /\ LastOutcome.tag = "UnknownCommand"
                  => LastOutcome = ErrUnknownCommand(items[1])
             /\ LastOutcome.tag \notin {"MissingArgValue", "DuplicateArg"}

\* `foo a=b a=c` and the like: an unknown command name followed by a
\* repeated key gives DuplicateArg.
C20_Witness ==
    /\ Parsed /\ Len(LastItems) = 3
    /\ ~IsKeyValueToken(LastItems[1])
    /\ LastItems[1] \notin {Str_ping, Str_try, Str_cancel}
    /\ ~starts_with(LastItems[1], "@")
    /\ Repeats(LastItems) = {3}
    /\ LastOutcome = ErrDuplicateArg(KeyOf(LastItems[3]))

====
